---- MODULE Spec2Model ----
(***************************************************************************)
(* Inventory ledger of src/app.py: products, purchase batches and sales,   *)
(* the FIFO consumption done by add_sale, and the figures shown by home    *)
(* and reports.                                                            *)
(*                                                                         *)
(* The stock is the three tables product, purchase and sale; the accounts  *)
(* are table user, and the categories table product_category.  Prices      *)
(* are Float columns; the model draws them from integers, on which float   *)
(* products and sums are exact.  Purchase.timestamp is CURRENT_TIMESTAMP   *)
(* (one-second resolution), so two batches may carry the same timestamp.   *)
(* Sale.timestamp is read by no handler but the sales listing and is left  *)
(* out.                                                                    *)
(***************************************************************************)
EXTENDS Integers, Sequences, FiniteSets, TLC

VARIABLES
    HAS_REMAINING,  \* app.config['HAS_REMAINING'], set once in create_app
    products,       \* table product: id -> [quantity, exists]
    purchases,      \* table purchase in id order: purchases[i] has id i
    sales,          \* table sale in id order
    req,            \* the request answered last: its handler op and form values
    flash,          \* its outcome: the flashed message, "404", or "500"
    txn,            \* the sale requests in flight: slot -> their local variables
    users,          \* table user in id order: users[i] has id i
    session,        \* the client's session cookie: user_id, 0 when it has none
    categories      \* table product_category: id -> [name, exists]

vars == <<HAS_REMAINING, products, purchases, sales, req, flash, txn,
          users, session, categories>>

db == <<products, purchases, sales>>

----------------------------------------------------------------------------
(* Bounds of the model *)

MaxBatches == 2       \* rows of table purchase
MaxSales   == 2       \* rows of table sale

\* product ids the table can hold; a specification names or creates a subset
ProductIds == {1, 2}
\* clock readings (CURRENT_TIMESTAMP, in seconds)
Timestamps == {0, 1}
\* a quantity as parsed from a form: 0 is "0" and also an unparseable value,
\* which the handlers turn into 0; -1 is a negative number
FormQtys   == {-1, 0, 1, 2}
\* a price as parsed from a form
Prices     == {2}
Slots      == {1, 2}

NoRow == [quantity |-> 0, exists |-> FALSE]

\* ids table product_category can hold, and the names a form can post
CategoryIds   == {1, 2}
CategoryNames == {"", "tools", "toys"}
NoCategory == [name |-> "", exists |-> FALSE]

\* a username as posted, a string of characters; a password as posted
FormUsernames == {<<>>, <<"a">>, <<" ", "a">>, <<"b">>}
FormPasswords == {"", "pw", "other"}
\* the random salt generate_password_hash draws
Salts == {1, 2}

----------------------------------------------------------------------------
(* Helpers *)

Min(a, b) == IF a <= b THEN a ELSE b

RECURSIVE SumOver(_, _)
\* sum of f[i] over the finite set S of indices
SumOver(f, S) ==
    IF S = {} THEN 0
    ELSE LET i == CHOOSE x \in S : TRUE IN f[i] + SumOver(f, S \ {i})

\* ids of the purchase rows of product pid
BatchesOf(purch, pid) == {i \in 1..Len(purch) : purch[i].product_id = pid}

\* NULL is the absence of the field (a row inserted by the raw INSERT of
\* the degraded mode has no value in column remaining)
HasRemaining(b) == "remaining" \in DOMAIN b

\* coalesce(sum(Purchase.remaining), 0) filtered on product_id: SUM skips NULL
total_remaining_of(purch, pid) ==
    LET S == {i \in BatchesOf(purch, pid) : HasRemaining(purch[i])}
    IN  SumOver([i \in S |-> purch[i].remaining], S)

\* variant of Consumable: the query lacks filter_by(product_id)
Consumable_AnyProduct(purch, pid) ==
    {i \in 1..Len(purch) : HasRemaining(purch[i]) /\ purch[i].remaining > 0}

\* Purchase.query.filter_by(product_id).filter(remaining > 0): the ids selected
Consumable(purch, pid) ==
    {i \in BatchesOf(purch, pid) : HasRemaining(purch[i]) /\ purch[i].remaining > 0}

\* the sequences over S without repetition that list all of S
Perms(S) ==
    {s \in [1..Cardinality(S) -> S] : \A i, j \in DOMAIN s : i # j => s[i] # s[j]}

\* variant of FifoOrders: the rows come newest first (timestamp.desc())
FifoOrders_NewestFirst(purch, pid) ==
    {s \in Perms(Consumable(purch, pid)) :
        \A i, j \in DOMAIN s :
            i < j => purch[s[i]].timestamp >= purch[s[j]].timestamp}

\* variant of FifoOrders: the query has no ORDER BY
FifoOrders_Unordered(purch, pid) ==
    Perms(Consumable(purch, pid))

\* .order_by(Purchase.timestamp.asc()): every order of the selected rows that
\* is ascending in timestamp; rows of equal timestamp come in an order SQL
\* leaves undefined
FifoOrders(purch, pid) ==
    {s \in Perms(Consumable(purch, pid)) :
        \A i, j \in DOMAIN s :
            i < j => purch[s[i]].timestamp <= purch[s[j]].timestamp}

RECURSIVE ConsumeLoop_NoMin(_, _, _, _)
\* variant of ConsumeLoop: take is what is still needed, without the min
ConsumeLoop_NoMin(rem, ord, i, remaining_to_consume) ==
    IF i > Len(ord) \/ remaining_to_consume <= 0
    THEN <<rem, remaining_to_consume>>
    ELSE LET take == remaining_to_consume
         IN  ConsumeLoop_NoMin([rem EXCEPT ![ord[i]] = @ - take], ord, i + 1,
                               remaining_to_consume - take)

\* variant of ConsumeLoop: the loop is left after the first batch
ConsumeLoop_FirstBatchOnly(rem, ord, i, remaining_to_consume) ==
    IF i > Len(ord) \/ remaining_to_consume <= 0
    THEN <<rem, remaining_to_consume>>
    ELSE LET take == Min(rem[ord[i]], remaining_to_consume)
         IN  <<[rem EXCEPT ![ord[i]] = @ - take], remaining_to_consume - take>>

RECURSIVE ConsumeLoop(_, _, _, _)
\* the for-loop of add_sale over the batches ord, from position i on:
\* rem maps batch id -> remaining; returns <<rem, remaining_to_consume>>
ConsumeLoop(rem, ord, i, remaining_to_consume) ==
    IF i > Len(ord) \/ remaining_to_consume <= 0
    THEN <<rem, remaining_to_consume>>
    ELSE LET take == Min(rem[ord[i]], remaining_to_consume)
         IN  ConsumeLoop([rem EXCEPT ![ord[i]] = @ - take], ord, i + 1,
                         remaining_to_consume - take)

\* variant of WriteRemaining: a batch the loop has emptied is deleted
WriteRemaining_DropsExhausted(purch, rem) ==
    SelectSeq([i \in 1..Len(purch) |->
                  IF i \in DOMAIN rem THEN [purch[i] EXCEPT !.remaining = rem[i]]
                  ELSE purch[i]],
              LAMBDA b : ~HasRemaining(b) \/ b.remaining > 0)

\* the flush of the dirty Purchase objects: UPDATE purchase SET remaining
WriteRemaining(purch, rem) ==
    [i \in 1..Len(purch) |->
        IF i \in DOMAIN rem THEN [purch[i] EXCEPT !.remaining = rem[i]]
        ELSE purch[i]]

\* the newest timestamp handed out so far (the clock never runs backwards)
LastTs(purch) ==
    IF Len(purch) = 0 THEN 0
    ELSE CHOOSE t \in Timestamps :
            /\ \E i \in 1..Len(purch) : purch[i].timestamp = t
            /\ \A i \in 1..Len(purch) : purch[i].timestamp <= t

\* the local variables of a sale request; rem holds the remaining the loop
\* left on the Purchase objects it loaded, flash the answer once it is done
Idle ==
    [pc |-> "idle", product_id |-> 0, quantity |-> 0, price |-> 0,
     read_quantity |-> 0, total_remaining |-> 0, rem |-> <<>>, flash |-> ""]

\* what the model keeps of a request: the handler, the product it names and
\* the quantity and price as parsed (product forms: the price is left out)
Request(op, pid, q, pr) ==
    [op |-> op, product_id |-> pid, quantity |-> q, price |-> pr]

RECURSIVE LStrip(_)
LStrip(u) == IF u # <<>> /\ Head(u) = " " THEN LStrip(Tail(u)) ELSE u

RECURSIVE RStrip(_)
RStrip(u) ==
    IF u # <<>> /\ u[Len(u)] = " " THEN RStrip(SubSeq(u, 1, Len(u) - 1)) ELSE u

\* str.strip(): the string without its leading and trailing blanks
Strip(u) == RStrip(LStrip(u))

\* the digest of a salted password; distinct inputs give distinct digests
Digest(salt, password) == <<"digest", salt, password>>

\* werkzeug's generate_password_hash with the salt it drew: the stored
\* string holds the salt and the digest
generate_password_hash(password, salt) ==
    [salt |-> salt, digest |-> Digest(salt, password)]

\* variant of check_password_hash: every password is accepted
check_password_hash_AnyPassword(pwhash, password) ==
    TRUE

\* werkzeug's check_password_hash: digest the password with the stored salt
check_password_hash(pwhash, password) ==
    pwhash.digest = Digest(pwhash.salt, password)

\* User.query.filter_by(username=username).first(): the id found, 0 if none
UserNamed(users_, username) ==
    IF \E i \in 1..Len(users_) : users_[i].username = username
    THEN CHOOSE i \in 1..Len(users_) : users_[i].username = username
    ELSE 0

NoSession == [user_id |-> 0]

----------------------------------------------------------------------------
(* Initial states.  Init is create_app on a database without stock, with
   the operator's account in table user and the operator logged in: the
   requests of Spec and of the specifications like it are the view functions
   as login_required calls them.  InitAuth is create_app on an empty
   database, before anybody has signed up: db.create_all() has made table
   purchase with its column remaining. *)

Init ==
    /\ HAS_REMAINING \in BOOLEAN
    /\ products = [p \in ProductIds |-> NoRow]
    /\ purchases = <<>>
    /\ sales = <<>>
    /\ req = Request("none", 0, 0, 0)
    /\ flash = ""
    /\ txn = [s \in Slots |-> Idle]
    /\ users = <<[username |-> <<"a">>,
                  password_hash |-> generate_password_hash("pw", 1)]>>
    /\ session = [user_id |-> 1]
    /\ categories = [c \in CategoryIds |-> NoCategory]

InitAuth ==
    /\ HAS_REMAINING = TRUE
    /\ products = [p \in ProductIds |-> NoRow]
    /\ purchases = <<>>
    /\ sales = <<>>
    /\ req = Request("none", 0, 0, 0)
    /\ flash = ""
    /\ txn = [s \in Slots |-> Idle]
    /\ users = <<>>
    /\ session = NoSession
    /\ categories = [c \in CategoryIds |-> NoCategory]

----------------------------------------------------------------------------
(* Product master data *)

\* the id SQLite gives a new product row: one more than the largest in use
NextProductId ==
    LET used == {p \in ProductIds : products[p].exists}
    IN  IF used = {} THEN 1
        ELSE 1 + CHOOSE m \in used : \A p \in used : p <= m

\* POST /products/add: name_ok is "the posted name is not empty"
add_product(name_ok, quantity) ==
    /\ req' = Request("add_product", 0, quantity, 0)
    /\ UNCHANGED <<HAS_REMAINING, users, session, categories, purchases, sales, txn>>
    /\ IF ~name_ok
       THEN /\ flash' = "Product name is required."
            /\ UNCHANGED products
       ELSE /\ NextProductId \in ProductIds
            /\ products' = [products EXCEPT ![NextProductId] =
                   [quantity |-> quantity, exists |-> TRUE]]
            /\ flash' = "Product added."

\* POST /products/<id>/edit
edit_product(product_id, name_ok, quantity) ==
    /\ req' = Request("edit_product", product_id, quantity, 0)
    /\ UNCHANGED <<HAS_REMAINING, users, session, categories, purchases, sales, txn>>
    /\ IF ~products[product_id].exists
       THEN /\ flash' = "404"
            /\ UNCHANGED products
       ELSE IF ~name_ok
       THEN /\ flash' = "Product name is required."
            /\ UNCHANGED products
       ELSE /\ products' = [products EXCEPT ![product_id].quantity = quantity]
            /\ flash' = "Product updated."

----------------------------------------------------------------------------
(* Purchases *)

\* variant of NewPurchase: the row is built without remaining=quantity and
\* the column takes 0
NewPurchase_RemainingZero(has_remaining, product_id, quantity, price, t) ==
    IF has_remaining
    THEN [product_id |-> product_id, quantity |-> quantity,
          remaining |-> 0, price |-> price, timestamp |-> t]
    ELSE [product_id |-> product_id, quantity |-> quantity,
          price |-> price, timestamp |-> t]

\* the row add_purchase inserts: with column remaining in full FIFO mode,
\* without it through the raw INSERT of the degraded mode
NewPurchase(has_remaining, product_id, quantity, price, t) ==
    IF has_remaining
    THEN [product_id |-> product_id, quantity |-> quantity,
          remaining |-> quantity, price |-> price, timestamp |-> t]
    ELSE [product_id |-> product_id, quantity |-> quantity,
          price |-> price, timestamp |-> t]

\* variant of PurchaseStock: the purchase leaves Product.quantity alone
PurchaseStock_Unchanged(products_, product_id, quantity) ==
    products_

\* variant of PurchaseStock: the purchased quantity replaces the stock
PurchaseStock_Overwrites(products_, product_id, quantity) ==
    [products_ EXCEPT ![product_id].quantity = quantity]

\* product.quantity = product.quantity + quantity
PurchaseStock(products_, product_id, quantity) ==
    [products_ EXCEPT ![product_id].quantity = @ + quantity]

\* POST /purchases/add at clock reading t
add_purchase(product_id, quantity, price, t) ==
    /\ req' = Request("add_purchase", product_id, quantity, price)
    /\ UNCHANGED <<HAS_REMAINING, users, session, categories, sales, txn>>
    /\ IF quantity <= 0
       THEN /\ flash' = "Quantity must be positive."
            /\ UNCHANGED <<products, purchases>>
       ELSE IF ~products[product_id].exists
       THEN /\ flash' = "404"
            /\ UNCHANGED <<products, purchases>>
       ELSE /\ Len(purchases) < MaxBatches
            /\ t >= LastTs(purchases)
            /\ purchases' = Append(purchases,
                   NewPurchase(HAS_REMAINING, product_id, quantity, price, t))
            /\ products' = PurchaseStock(products, product_id, quantity)
            /\ flash' = "Purchase recorded"

----------------------------------------------------------------------------
(* Sales *)

NewSale(product_id, quantity, price) ==
    [product_id |-> product_id, quantity |-> quantity, price |-> price]

\* variant of SaleStock: the sale leaves Product.quantity alone
SaleStock_Unchanged(products_, product_id, read_quantity, quantity) ==
    products_

\* product.quantity = product.quantity - quantity, on the quantity the
\* request read when it loaded the product
SaleStock(products_, product_id, read_quantity, quantity) ==
    [products_ EXCEPT ![product_id].quantity = read_quantity - quantity]

\* variant of SaleCheck: the stock comparison is >= for >
SaleCheck_AtLeast(products_, product_id, quantity) ==
    IF quantity <= 0 THEN "Quantity must be positive."
    ELSE IF ~products_[product_id].exists THEN "404"
    ELSE IF quantity >= products_[product_id].quantity
         THEN "Not enough stock for this sale."
    ELSE "ok"

\* variant of SaleCheck: a missing product is answered like an empty one
SaleCheck_MissingIsNoStock(products_, product_id, quantity) ==
    IF quantity <= 0 THEN "Quantity must be positive."
    ELSE IF ~products_[product_id].exists
         THEN "Not enough stock for this sale."
    ELSE IF quantity > products_[product_id].quantity
         THEN "Not enough stock for this sale."
    ELSE "ok"

\* variant of SaleCheck: the quantity is not validated
SaleCheck_NoQuantityCheck(products_, product_id, quantity) ==
    IF ~products_[product_id].exists THEN "404"
    ELSE IF quantity > products_[product_id].quantity
         THEN "Not enough stock for this sale."
    ELSE "ok"

\* variant of SaleCheck: the comparison with Product.quantity is missing
SaleCheck_NoStockCheck(products_, product_id, quantity) ==
    IF quantity <= 0 THEN "Quantity must be positive."
    ELSE IF ~products_[product_id].exists THEN "404"
    ELSE "ok"

\* lines 735-745: what the request answers before it touches a batch
SaleCheck(products_, product_id, quantity) ==
    IF quantity <= 0 THEN "Quantity must be positive."
    ELSE IF ~products_[product_id].exists THEN "404"
    ELSE IF quantity > products_[product_id].quantity
         THEN "Not enough stock for this sale."
    ELSE "ok"

\* variant of SaleBranch: no fallback to Product.quantity when the batches
\* do not cover the sale
SaleBranch_NoFallback(has_remaining, total_remaining, read_quantity, quantity) ==
    IF has_remaining
    THEN IF total_remaining >= quantity THEN "fifo" ELSE "reject"
    ELSE "aggregate"

\* variant of SaleBranch: the batch sum must exceed the quantity (> for >=)
SaleBranch_StrictlyMore(has_remaining, total_remaining, read_quantity, quantity) ==
    IF has_remaining
    THEN IF total_remaining > quantity THEN "fifo"
         ELSE IF read_quantity >= quantity THEN "aggregate"
         ELSE "reject"
    ELSE "aggregate"

\* lines 748-805: the branch a checked request takes: "fifo" consumes
\* batches, "aggregate" records the sale against Product.quantity alone
\* (the fallback of line 786 and the degraded mode), "reject" is line 794
SaleBranch(has_remaining, total_remaining, read_quantity, quantity) ==
    IF has_remaining
    THEN IF total_remaining >= quantity THEN "fifo"
         ELSE IF read_quantity >= quantity THEN "aggregate"
         ELSE "reject"
    ELSE "aggregate"

\* the remaining of the rows the FIFO query loaded
LoadedRemaining(purch, ord) ==
    [i \in {ord[k] : k \in DOMAIN ord} |-> purch[i].remaining]

\* variant of add_sale: the batches are consumed and committed first, and
\* the stock is checked afterwards, so a rejected sale keeps what it consumed
add_sale_ChecksAfterConsuming(product_id, quantity, price) ==
    /\ req' = Request("add_sale", product_id, quantity, price)
    /\ UNCHANGED <<HAS_REMAINING, users, session, categories, txn>>
    /\ IF quantity <= 0
       THEN /\ flash' = "Quantity must be positive."
            /\ UNCHANGED <<products, purchases, sales>>
       ELSE IF ~products[product_id].exists
       THEN /\ flash' = "404"
            /\ UNCHANGED <<products, purchases, sales>>
       ELSE \E ord \in FifoOrders(purchases, product_id) :
              LET result == ConsumeLoop(LoadedRemaining(purchases, ord),
                                        ord, 1, quantity)
              IN  /\ purchases' = IF HAS_REMAINING
                                  THEN WriteRemaining(purchases, result[1])
                                  ELSE purchases
                  /\ IF quantity > products[product_id].quantity
                     THEN /\ flash' = "Not enough stock for this sale."
                          /\ UNCHANGED <<products, sales>>
                     ELSE /\ Len(sales) < MaxSales
                          /\ sales' = Append(sales,
                                 NewSale(product_id, quantity, price))
                          /\ products' = SaleStock(products, product_id,
                                 products[product_id].quantity, quantity)
                          /\ flash' = "Sale recorded"

\* POST /sales/add served alone, from the request to its commit
add_sale(product_id, quantity, price) ==
    /\ req' = Request("add_sale", product_id, quantity, price)
    /\ UNCHANGED <<HAS_REMAINING, users, session, categories, txn>>
    /\ LET check == SaleCheck(products, product_id, quantity)
           read_quantity == products[product_id].quantity
           total_remaining == total_remaining_of(purchases, product_id)
           branch == SaleBranch(HAS_REMAINING, total_remaining,
                                read_quantity, quantity)
       IN  IF check # "ok"
           THEN /\ flash' = check
                /\ UNCHANGED <<products, purchases, sales>>
           ELSE IF branch = "reject"
           THEN /\ flash' = "Not enough stock for this sale."
                /\ UNCHANGED <<products, purchases, sales>>
           ELSE /\ Len(sales) < MaxSales
                /\ IF branch = "fifo"
                   THEN \E ord \in FifoOrders(purchases, product_id) :
                           purchases' = WriteRemaining(purchases,
                               ConsumeLoop(LoadedRemaining(purchases, ord),
                                           ord, 1, quantity)[1])
                   ELSE UNCHANGED purchases
                /\ sales' = Append(sales, NewSale(product_id, quantity, price))
                /\ products' = SaleStock(products, product_id,
                                         read_quantity, quantity)
                /\ flash' = "Sale recorded"

----------------------------------------------------------------------------
(* Requests served one at a time *)

\* the requests that name, or create, a product of ids, with their form
\* values drawn from qtys and prices
Requests(ids, qtys, prices) ==
    \/ \E n \in BOOLEAN, q \in qtys :
          /\ ~n \/ NextProductId \in ids
          /\ add_product(n, q)
    \/ \E p \in ids, n \in BOOLEAN, q \in qtys : edit_product(p, n, q)
    \/ \E p \in ids, q \in qtys, pr \in prices, t \in Timestamps :
          add_purchase(p, q, pr, t)
    \/ \E p \in ids, q \in qtys, pr \in prices : add_sale(p, q, pr)

Next == Requests({1}, FormQtys, Prices)

Spec == Init /\ [][Next]_vars

----------------------------------------------------------------------------
(* POST /sales/add as the steps of a request that runs beside others.      *)
(* Each request has its own session.  The product row is read once, when   *)
(* the request loads it, and the object keeps that quantity to the end of  *)
(* the request; the batch sum and the batch rows are read later, each in a *)
(* query of its own.  The writes of a request reach the database together, *)
(* in the flush and commit that end it (an UPDATE sets the value the       *)
(* object holds); an exception before that leaves the session to be rolled *)
(* back when the request is torn down.  From SAVEPOINT on, the request     *)
(* holds SQLite's shared lock, and no other request commits before it ends.*)

InFlight(s) == txn[s].pc \notin {"idle", "done"}

\* the request r answered with outcome
Done(r, outcome) == [r EXCEPT !.pc = "done", !.flash = outcome]

\* the request as it starts
Started(product_id, quantity, price) ==
    [Idle EXCEPT !.product_id = product_id, !.quantity = quantity,
                 !.price = price]

\* lines 724-745: parse the form, load the product, compare with its quantity
sale_begin(s, product_id, quantity, price) ==
    /\ txn[s].pc = "idle"
    /\ UNCHANGED <<HAS_REMAINING, users, session, categories, products, purchases, sales>>
    /\ LET check == SaleCheck(products, product_id, quantity)
       IN  IF check # "ok"
           THEN /\ txn' = [txn EXCEPT ![s] =
                       Done(Started(product_id, quantity, price), check)]
                /\ req' = Request("add_sale", product_id, quantity, price)
                /\ flash' = check
           ELSE /\ txn' = [txn EXCEPT ![s] =
                       [Started(product_id, quantity, price) EXCEPT
                           !.pc = "checked",
                           !.read_quantity = products[product_id].quantity]]
                /\ UNCHANGED <<req, flash>>

\* lines 748-753, 786, 796: read the batch sum and choose the branch
sale_total(s) ==
    /\ txn[s].pc = "checked"
    /\ UNCHANGED <<HAS_REMAINING, users, session, categories, products, purchases, sales>>
    /\ LET r == txn[s]
           total_remaining == IF HAS_REMAINING
                              THEN total_remaining_of(purchases, r.product_id)
                              ELSE 0
           branch == SaleBranch(HAS_REMAINING, total_remaining,
                                r.read_quantity, r.quantity)
       IN  IF branch = "reject"
           THEN /\ txn' = [txn EXCEPT ![s] =
                       Done([r EXCEPT !.total_remaining = total_remaining],
                            "Not enough stock for this sale.")]
                /\ req' = Request("add_sale", r.product_id, r.quantity, r.price)
                /\ flash' = "Not enough stock for this sale."
           ELSE /\ txn' = [txn EXCEPT ![s].pc = branch,
                                      ![s].total_remaining = total_remaining]
                /\ UNCHANGED <<req, flash>>

\* variant of sale_consume: every batch the loop changes is committed at
\* once, before the Sale row and the product's quantity
sale_consume_WritesThrough(s) ==
    /\ txn[s].pc = "fifo"
    /\ UNCHANGED <<HAS_REMAINING, users, session, categories, products, sales, req, flash>>
    /\ \E ord \in FifoOrders(purchases, txn[s].product_id) :
          LET rem == ConsumeLoop(LoadedRemaining(purchases, ord), ord, 1,
                                 txn[s].quantity)[1]
          IN  /\ txn' = [txn EXCEPT ![s].pc = "pending", ![s].rem = rem]
              /\ purchases' = WriteRemaining(purchases, rem)

\* lines 757-774: SAVEPOINT, load the batches oldest first, run the loop on
\* the loaded objects
sale_consume(s) ==
    /\ txn[s].pc = "fifo"
    /\ UNCHANGED <<HAS_REMAINING, users, session, categories, products, purchases, sales, req, flash>>
    /\ \E ord \in FifoOrders(purchases, txn[s].product_id) :
          txn' = [txn EXCEPT
              ![s].pc = "pending",
              ![s].rem = ConsumeLoop(LoadedRemaining(purchases, ord), ord, 1,
                                     txn[s].quantity)[1]]

\* what the flush and commit of a sale write: the batches the loop changed,
\* the Sale row and the product's quantity
CommitSale(r) ==
    /\ purchases' = WriteRemaining(purchases, r.rem)
    /\ sales' = Append(sales, NewSale(r.product_id, r.quantity, r.price))
    /\ products' = SaleStock(products, r.product_id, r.read_quantity, r.quantity)

\* lines 776-783 (FIFO), 788-792 (fallback) and 799-805 (degraded mode)
sale_commit(s) ==
    /\ txn[s].pc \in {"pending", "aggregate"}
    /\ \A o \in Slots \ {s} : txn[o].pc # "pending"
    /\ Len(sales) < MaxSales
    /\ CommitSale(txn[s])
    /\ txn' = [txn EXCEPT ![s] = Done(txn[s], "Sale recorded")]
    /\ req' = Request("add_sale", txn[s].product_id, txn[s].quantity, txn[s].price)
    /\ flash' = "Sale recorded"
    /\ UNCHANGED <<HAS_REMAINING, users, session, categories>>

\* an exception before the commit (the database is locked, the connection is
\* lost): the request answers 500 and its session is rolled back
sale_fail(s) ==
    /\ InFlight(s)
    /\ txn' = [txn EXCEPT ![s] = Done(txn[s], "500")]
    /\ req' = Request("add_sale", txn[s].product_id, txn[s].quantity, txn[s].price)
    /\ flash' = "500"
    /\ UNCHANGED <<HAS_REMAINING, users, session, categories, products, purchases, sales>>

\* requests that overlap: the product and its purchases are posted first, then
\* two sessions serve one sale each, step by step
NextConc ==
    \/ /\ \A s \in Slots : txn[s].pc = "idle"
       /\ \/ NextProductId = 1 /\ add_product(TRUE, 0)
          \/ \E q \in FormQtys, pr \in Prices, t \in Timestamps :
                add_purchase(1, q, pr, t)
    \/ \E s \in Slots, q \in FormQtys, pr \in Prices : sale_begin(s, 1, q, pr)
    \/ \E s \in Slots : sale_total(s)
    \/ \E s \in Slots : sale_consume(s)
    \/ \E s \in Slots : sale_commit(s)
    \/ \E s \in Slots : sale_fail(s)

SpecConc == Init /\ [][NextConc]_vars

----------------------------------------------------------------------------
(* The figures of home and reports *)

\* variant of home_total_value: the original quantities are valued in both
\* modes
home_total_value_Original(has_remaining, purch) ==
    LET S == 1..Len(purch)
    IN  SumOver([i \in S |-> purch[i].quantity * purch[i].price], S)

\* home, lines 247-259: the inventory valuation
home_total_value(has_remaining, purch) ==
    IF has_remaining
    THEN LET S == {i \in 1..Len(purch) :
                      HasRemaining(purch[i]) /\ purch[i].remaining > 0}
         IN  SumOver([i \in S |-> purch[i].remaining * purch[i].price], S)
    ELSE LET S == 1..Len(purch)
         IN  SumOver([i \in S |-> purch[i].quantity * purch[i].price], S)

\* reports, lines 960-962: sum(Sale.quantity * Sale.price)
total_sales_amount(sales_) ==
    SumOver([i \in 1..Len(sales_) |-> sales_[i].quantity * sales_[i].price],
            1..Len(sales_))

\* variant of total_purchase_cost: what is left of each batch is costed
total_purchase_cost_Remaining(purch) ==
    LET S == {i \in 1..Len(purch) : HasRemaining(purch[i])}
    IN  SumOver([i \in S |-> purch[i].remaining * purch[i].price], S)

\* reports, lines 967-969: sum(Purchase.quantity * Purchase.price)
total_purchase_cost(purch) ==
    SumOver([i \in 1..Len(purch) |-> purch[i].quantity * purch[i].price],
            1..Len(purch))

\* reports, line 973
profit_loss(sales_, purch) ==
    total_sales_amount(sales_) - total_purchase_cost(purch)

----------------------------------------------------------------------------
(* Deleting a product, and the pages that report *)

\* POST /products/<id>/delete: DELETE FROM product for the one row.  No
\* relationship of Product cascades to Purchase or Sale, the foreign keys
\* carry no ON DELETE, and SQLite does not enforce them unless asked to
delete_product(product_id) ==
    /\ req' = Request("delete_product", product_id, 0, 0)
    /\ UNCHANGED <<HAS_REMAINING, users, session, categories, purchases, sales, txn>>
    /\ IF ~products[product_id].exists
       THEN /\ flash' = "404"
            /\ UNCHANGED products
       ELSE /\ products' = [products EXCEPT ![product_id] = NoRow]
            /\ flash' = "Product deleted."

\* variant of home: the dashboard repairs the batches as it reads them,
\* resetting the remaining of each to its quantity
home_Normalises ==
    /\ req' = Request("home", 0, 0, 0)
    /\ flash' = ""
    /\ UNCHANGED <<HAS_REMAINING, users, session, categories, products, sales, txn>>
    /\ purchases' = [i \in 1..Len(purchases) |->
                        IF HasRemaining(purchases[i])
                        THEN [purchases[i] EXCEPT !.remaining = purchases[i].quantity]
                        ELSE purchases[i]]

\* GET /: counts and sums read with SELECTs and rendered; nothing is added
\* to the session and nothing is committed
home ==
    /\ req' = Request("home", 0, 0, 0)
    /\ flash' = ""
    /\ UNCHANGED <<HAS_REMAINING, users, session, categories, products, purchases, sales, txn>>

\* GET /reports: six aggregate SELECTs and a subtraction, rendered
reports ==
    /\ req' = Request("reports", 0, 0, 0)
    /\ flash' = ""
    /\ UNCHANGED <<HAS_REMAINING, users, session, categories, products, purchases, sales, txn>>

\* every request of the site that touches the ledger, served one at a time;
\* product id 2 is never created, so a request that names it finds no row
NextSite ==
    \/ Requests({1}, FormQtys, Prices)
    \/ \E q \in FormQtys, pr \in Prices, t \in Timestamps :
          add_purchase(2, q, pr, t)
    \/ \E q \in FormQtys, pr \in Prices : add_sale(2, q, pr)
    \/ \E p \in ProductIds : delete_product(p)
    \/ home
    \/ reports

SpecSite == Init /\ [][NextSite]_vars

----------------------------------------------------------------------------
(* The ledger with the pages that report on it, on quantities and prices   *)
(* that tell the figures apart: unit costs 2 and 3, sale price 5           *)

FigureStockQtys    == {0, 3}
FigurePurchaseQtys == {2, 3}
FigureCosts        == {2, 3}
FigureSaleQtys     == {4}
FigureSalePrices   == {5}

\* the product is created empty and restocked by purchases posted within one
\* second; its quantity is edited by hand, and it is sold 4 units at a time
NextFigures ==
    \/ NextProductId = 1 /\ add_product(TRUE, 0)
    \/ \E q \in FigureStockQtys : edit_product(1, TRUE, q)
    \/ \E q \in FigurePurchaseQtys, pr \in FigureCosts :
          add_purchase(1, q, pr, 0)
    \/ \E q \in FigureSaleQtys, pr \in FigureSalePrices : add_sale(1, q, pr)
    \/ home
    \/ reports

SpecFigures == Init /\ [][NextFigures]_vars

----------------------------------------------------------------------------
(* The Widget scenario: one product created with quantity 0, purchases of   *)
(* 10 and 5 units at costs 2 and 3, sales of 12 units at price 5           *)

ScenarioPurchaseQtys == {10, 5}
ScenarioCosts        == {2, 3}
ScenarioSaleQtys     == {12}
ScenarioSalePrices   == {5}

NextScenario ==
    \/ NextProductId = 1 /\ add_product(TRUE, 0)
    \/ \E q \in ScenarioPurchaseQtys, pr \in ScenarioCosts, t \in Timestamps :
          add_purchase(1, q, pr, t)
    \/ \E q \in ScenarioSaleQtys, pr \in ScenarioSalePrices : add_sale(1, q, pr)

SpecScenario == Init /\ [][NextScenario]_vars

----------------------------------------------------------------------------
(* The stock ledger alone: a product is created with some quantity and from
   then on only purchases and sales are posted (no edit_product) *)

NextLedger ==
    \/ \E n \in BOOLEAN, q \in FormQtys :
          /\ ~n \/ NextProductId = 1
          /\ add_product(n, q)
    \/ \E q \in FormQtys, pr \in Prices, t \in Timestamps :
          add_purchase(1, q, pr, t)
    \/ \E q \in FormQtys, pr \in Prices : add_sale(1, q, pr)

SpecLedger == Init /\ [][NextLedger]_vars

----------------------------------------------------------------------------
(* Two products side by side: each is created with some stock, and
   purchases and sales are posted for either *)

TwoStockQtys    == {0, 2}
TwoPurchaseQtys == {1, 2}
TwoSaleQtys     == {1, 2}

NextTwo ==
    \/ \E q \in TwoStockQtys :
          /\ NextProductId \in ProductIds
          /\ add_product(TRUE, q)
    \/ \E p \in ProductIds, q \in TwoPurchaseQtys, pr \in Prices,
          t \in Timestamps : add_purchase(p, q, pr, t)
    \/ \E p \in ProductIds, q \in TwoSaleQtys, pr \in Prices :
          add_sale(p, q, pr)

SpecTwo == Init /\ [][NextTwo]_vars

----------------------------------------------------------------------------
(* The prices a form can post *)

\* a price as parsed by float(): 0 is "0" and also an unparseable value,
\* which the except branch turns into 0.0; -1 is a negative number
FormPrices == {-1, 0, 2}
PriceQtys  == {0, 1}

NextPrices ==
    \/ \E q \in PriceQtys :
          /\ NextProductId = 1
          /\ add_product(TRUE, q)
    \/ \E q \in PriceQtys, pr \in FormPrices, t \in Timestamps :
          add_purchase(1, q, pr, t)
    \/ \E q \in PriceQtys, pr \in FormPrices : add_sale(1, q, pr)

SpecPrices == Init /\ [][NextPrices]_vars

----------------------------------------------------------------------------
(* Accounts, the session and the routes behind login_required *)

\* what the model keeps of a signup, login or logout request
AuthRequest(op, username, password) ==
    [op |-> op, username |-> username, password |-> password]

\* what the model keeps of a category request
CategoryRequest(op, category_id, name) ==
    [op |-> op, category_id |-> category_id, name |-> name]

\* User.check_password
check_password(user, password) ==
    check_password_hash(user.password_hash, password)

\* POST /signup; salt is what set_password's hashing draws
signup(username, password, salt) ==
    /\ req' = AuthRequest("signup", username, password)
    /\ UNCHANGED <<HAS_REMAINING, products, purchases, sales, txn,
                   session, categories>>
    /\ IF Strip(username) = <<>> \/ password = ""
       THEN /\ flash' = "Username and password are required."
            /\ UNCHANGED users
       ELSE IF UserNamed(users, Strip(username)) # 0
       THEN /\ flash' = "Username already exists."
            /\ UNCHANGED users
       ELSE /\ users' = Append(users,
                   [username |-> Strip(username),
                    password_hash |-> generate_password_hash(password, salt)])
            /\ flash' = "Account created successfully. Please log in."

\* POST /login: nothing is flashed when the login succeeds
login(username, password) ==
    /\ req' = AuthRequest("login", username, password)
    /\ UNCHANGED <<HAS_REMAINING, products, purchases, sales, txn,
                   users, categories>>
    /\ LET user == UserNamed(users, Strip(username))
       IN  IF user # 0 /\ check_password(users[user], password)
           THEN /\ session' = [user_id |-> user]
                /\ flash' = ""
           ELSE /\ flash' = "Invalid username or password."
                /\ UNCHANGED session

\* GET /logout
logout ==
    /\ req' = AuthRequest("logout", <<>>, "")
    /\ session' = NoSession
    /\ flash' = "You have been logged out."
    /\ UNCHANGED <<HAS_REMAINING, products, purchases, sales, txn,
                   users, categories>>

\* variant of login_required: the view function is called whatever the session
login_required_ChecksNothing(request, fn) ==
    fn

\* the decorator: request is what the client sent, fn the view function
\* answering it
login_required(request, fn) ==
    IF session.user_id = 0
    THEN /\ req' = request
         /\ flash' = "You must be logged in to access that page."
         /\ UNCHANGED <<HAS_REMAINING, products, purchases, sales, txn,
                        users, session, categories>>
    ELSE fn

\* the id SQLite gives a new category row
NextCategoryId ==
    LET used == {c \in CategoryIds : categories[c].exists}
    IN  IF used = {} THEN 1
        ELSE 1 + CHOOSE m \in used : \A c \in used : c <= m

\* POST /categories/add with the stripped name
add_category(name) ==
    /\ req' = CategoryRequest("add_category", 0, name)
    /\ UNCHANGED <<HAS_REMAINING, products, purchases, sales, txn,
                   users, session>>
    /\ IF name = ""
       THEN /\ flash' = "Category name is required."
            /\ UNCHANGED categories
       ELSE IF \E c \in CategoryIds :
                  categories[c].exists /\ categories[c].name = name
       THEN /\ flash' = "Category name already exists."
            /\ UNCHANGED categories
       ELSE /\ NextCategoryId \in CategoryIds
            /\ categories' = [categories EXCEPT ![NextCategoryId] =
                   [name |-> name, exists |-> TRUE]]
            /\ flash' = "Category added."

\* POST /categories/<id>/edit with the stripped name
edit_category(category_id, name) ==
    /\ req' = CategoryRequest("edit_category", category_id, name)
    /\ UNCHANGED <<HAS_REMAINING, products, purchases, sales, txn,
                   users, session>>
    /\ IF ~categories[category_id].exists
       THEN /\ flash' = "404"
            /\ UNCHANGED categories
       ELSE IF name = ""
       THEN /\ flash' = "Category name is required."
            /\ UNCHANGED categories
       ELSE IF \E c \in CategoryIds \ {category_id} :
                  categories[c].exists /\ categories[c].name = name
       THEN /\ flash' = "Another category with that name already exists."
            /\ UNCHANGED categories
       ELSE /\ categories' = [categories EXCEPT ![category_id].name = name]
            /\ flash' = "Category updated."

\* POST /categories/<id>/delete; in_use is "some product is assigned to the
\* category" (Product.category_id, which the model of table product leaves
\* out)
delete_category(category_id, in_use) ==
    /\ req' = CategoryRequest("delete_category", category_id, "")
    /\ UNCHANGED <<HAS_REMAINING, products, purchases, sales, txn,
                   users, session>>
    /\ in_use => \E p \in ProductIds : products[p].exists
    /\ IF ~categories[category_id].exists
       THEN /\ flash' = "404"
            /\ UNCHANGED categories
       ELSE IF in_use
       THEN /\ flash' = "Cannot delete category: products are assigned to it."
            /\ UNCHANGED categories
       ELSE /\ categories' = [categories EXCEPT ![category_id] = NoCategory]
            /\ flash' = "Category deleted."

\* the handlers of the routes that carry @login_required
ProtectedOps ==
    {"home", "reports", "add_product", "edit_product", "delete_product",
     "add_purchase", "add_sale",
     "add_category", "edit_category", "delete_category"}

\* a client that signs up, logs in and out with any of the form values
NextLogin ==
    \/ \E u \in FormUsernames, pw \in FormPasswords, salt \in Salts :
          signup(u, pw, salt)
    \/ \E u \in FormUsernames, pw \in FormPasswords : login(u, pw)
    \/ logout

SpecLogin == InitAuth /\ [][NextLogin]_vars

\* the one account of NextAuth
OperatorName      == <<"a">>
OperatorPasswords == {"pw", "other"}

\* a client that signs up as the operator, logs in and out, and requests
\* the protected routes in any session state; the stock requests are one
\* unit of product 1
NextAuth ==
    \/ \E salt \in Salts : signup(OperatorName, "pw", salt)
    \/ \E pw \in OperatorPasswords : login(OperatorName, pw)
    \/ logout
    \/ login_required(Request("home", 0, 0, 0), home)
    \/ login_required(Request("reports", 0, 0, 0), reports)
    \/ login_required(Request("add_product", 0, 1, 0),
                      NextProductId = 1 /\ add_product(TRUE, 1))
    \/ login_required(Request("edit_product", 1, 2, 0),
                      edit_product(1, TRUE, 2))
    \/ login_required(Request("delete_product", 1, 0, 0), delete_product(1))
    \/ login_required(Request("add_purchase", 1, 1, 2),
                      add_purchase(1, 1, 2, 0))
    \/ login_required(Request("add_sale", 1, 1, 2), add_sale(1, 1, 2))
    \/ \E n \in CategoryNames :
          login_required(CategoryRequest("add_category", 0, n),
                         add_category(n))
    \/ \E c \in CategoryIds, n \in CategoryNames :
          login_required(CategoryRequest("edit_category", c, n),
                         edit_category(c, n))
    \/ \E c \in CategoryIds, u \in BOOLEAN :
          login_required(CategoryRequest("delete_category", c, ""),
                         delete_category(c, u))

SpecAuth == InitAuth /\ [][NextAuth]_vars

----------------------------------------------------------------------------
(* Properties.  In Spec every step is one request answered: req' names the  *)
(* handler and what was posted, flash' its answer, and the unprimed tables  *)
(* are the database before the request.                                     *)

NotEnough == "Not enough stock for this sale."
Recorded  == "Sale recorded"

Max(a, b) == IF a >= b THEN a ELSE b

\* Product.quantity == sum of Purchase.remaining over the product's batches
QuantityIsBatchSum(p) ==
    products[p].quantity = total_remaining_of(purchases, p)

\* the step answers a sale of a positive quantity on an existing product
SaleStep ==
    /\ req'.op = "add_sale"
    /\ req'.quantity > 0
    /\ products[req'.product_id].exists

\* the request of the step was rejected for stock and changed nothing
RejectedNoChange ==
    /\ flash' = NotEnough
    /\ UNCHANGED <<products, purchases, sales>>

(* C1, as claimed: in full FIFO mode every product satisfies
   Product.quantity == sum of Purchase.remaining over its batches, whatever
   requests (add_product, edit_product, add_purchase, add_sale) came before. *)
C1_QuantityAlwaysBatchSum ==
    HAS_REMAINING =>
        \A p \in ProductIds : products[p].exists => QuantityIsBatchSum(p)

(* C1, amended: in full FIFO mode every completed add_purchase and add_sale
   request preserves Product.quantity == sum of Purchase.remaining: a product
   that satisfies the equality before the request satisfies it after. *)
C1_LedgerRequestsKeepBatchSum ==
    [][ \A p \in ProductIds :
          ( /\ HAS_REMAINING
            /\ req'.op \in {"add_purchase", "add_sale"}
            /\ products[p].exists
            /\ QuantityIsBatchSum(p) )
          => QuantityIsBatchSum(p)' ]_vars

\* a sale has just consumed part of a batch of a product whose quantity is
\* its batch sum
C1_Witness ==
    /\ HAS_REMAINING
    /\ req.op = "add_sale" /\ flash = Recorded
    /\ products[req.product_id].exists
    /\ QuantityIsBatchSum(req.product_id)
    /\ \E i \in BatchesOf(purchases, req.product_id) :
          purchases[i].remaining < purchases[i].quantity

\* the consumable batches of product p carry pairwise distinct timestamps
DistinctTimestamps(purch, p) ==
    \A a, b \in Consumable(purch, p) :
        a # b => purch[a].timestamp # purch[b].timestamp

\* the remaining held by the batches of p that are older than batch b
OlderRemaining(purch, p, b) ==
    LET S == {a \in Consumable(purch, p) :
                 purch[a].timestamp < purch[b].timestamp}
    IN  SumOver([a \in S |-> purch[a].remaining], S)

(* C2: in full FIFO mode a recorded sale of q on a product whose consumable
   batches have distinct timestamps decrements a batch only if every older
   batch of the product is at remaining 0 after the sale; and when the batch
   sum covers q, each batch, oldest first, gives
   take = min(remaining, what is still needed after the older batches). *)
C2_FifoOrder ==
    [][ ( /\ HAS_REMAINING
          /\ SaleStep
          /\ flash' = Recorded
          /\ DistinctTimestamps(purchases, req'.product_id) )
        => LET p == req'.product_id
               q == req'.quantity
               B == BatchesOf(purchases, p)
           IN  /\ \A b \in B :
                     purchases'[b].remaining < purchases[b].remaining
                     => \A a \in B :
                           purchases[a].timestamp < purchases[b].timestamp
                           => purchases'[a].remaining = 0
               /\ total_remaining_of(purchases, p) >= q
                  => \A b \in B :
                        purchases'[b].remaining =
                            purchases[b].remaining
                            - Min(purchases[b].remaining,
                                  Max(0, q - OlderRemaining(purchases, p, b)))
      ]_vars

\* a sale has just emptied an older batch and taken part of a newer one
C2_Witness ==
    /\ HAS_REMAINING
    /\ req.op = "add_sale" /\ flash = Recorded
    /\ \E a, b \in BatchesOf(purchases, req.product_id) :
          /\ purchases[a].timestamp < purchases[b].timestamp
          /\ purchases[a].remaining = 0
          /\ purchases[b].remaining > 0
          /\ purchases[b].remaining < purchases[b].quantity

(* C3, as claimed: in full FIFO mode, whenever the sum of remaining over the
   product's batches is less than the requested quantity, add_sale rejects
   the sale and changes no Sale record, batch or Product.quantity. *)
C3_RejectsBelowBatchSum ==
    [][ ( /\ HAS_REMAINING
          /\ SaleStep
          /\ total_remaining_of(purchases, req'.product_id) < req'.quantity )
        => RejectedNoChange ]_vars

(* C3, amended: whenever the requested quantity exceeds Product.quantity,
   add_sale rejects the sale as insufficient stock and changes no Sale
   record, batch or Product.quantity; a sale whose quantity exceeds the batch
   sum but not Product.quantity is recorded against Product.quantity alone,
   and no batch is changed. *)
C3_RejectsAboveQuantity ==
    [][ SaleStep
        => LET p == req'.product_id
               q == req'.quantity
           IN  /\ q > products[p].quantity => RejectedNoChange
               /\ ( /\ HAS_REMAINING
                    /\ total_remaining_of(purchases, p) < q
                    /\ q <= products[p].quantity )
                  => /\ flash' = Recorded
                     /\ purchases' = purchases
                     /\ sales' = Append(sales, NewSale(p, q, req'.price))
                     /\ products'[p].quantity = products[p].quantity - q
      ]_vars

\* a sale of more than Product.quantity has just been rejected while the
\* product had stock in a batch
C3_Witness ==
    /\ req.op = "add_sale" /\ flash = NotEnough
    /\ products[req.product_id].exists
    /\ req.quantity > products[req.product_id].quantity
    /\ total_remaining_of(purchases, req.product_id) > 0

(* C4: an add_sale request answered 'Not enough stock for this sale.' leaves
   every batch, every product's quantity and the Sale records as they were. *)
C4_RejectedSaleChangesNothing ==
    [][ (req'.op = "add_sale" /\ flash' = NotEnough)
        => UNCHANGED <<products, purchases, sales>> ]_vars

\* a sale has just been rejected for stock with batches and sales on record
C4_Witness ==
    /\ req.op = "add_sale" /\ flash = NotEnough
    /\ Len(purchases) > 0
    /\ Len(sales) > 0

\* the boundary of C5 on the product the step names, whose batch sum is A
BoundaryOutcome(p, A) ==
    /\ req'.quantity = A
       => /\ flash' = Recorded
          /\ products'[p].quantity = 0
          /\ \A b \in BatchesOf(purchases', p) : purchases'[b].remaining = 0
    /\ req'.quantity = A + 1 => RejectedNoChange

(* C5, as claimed: for a product whose batch sum is A > 0, a sale of exactly
   A is recorded and leaves Product.quantity == 0 and every batch of the
   product at remaining 0, and a sale of A + 1 fails. *)
C5_BoundaryOfBatchSum ==
    [][ ( /\ HAS_REMAINING
          /\ SaleStep
          /\ total_remaining_of(purchases, req'.product_id) > 0 )
        => BoundaryOutcome(req'.product_id,
                           total_remaining_of(purchases, req'.product_id))
      ]_vars

(* C5, amended: for a product whose Product.quantity equals its batch sum
   A > 0, a sale of exactly A is recorded and leaves Product.quantity == 0
   and every batch of the product at remaining 0, and a sale of A + 1 is
   rejected. *)
C5_BoundaryWhenQuantityIsBatchSum ==
    [][ ( /\ HAS_REMAINING
          /\ SaleStep
          /\ total_remaining_of(purchases, req'.product_id) > 0
          /\ QuantityIsBatchSum(req'.product_id) )
        => BoundaryOutcome(req'.product_id,
                           total_remaining_of(purchases, req'.product_id))
      ]_vars

\* a sale of the whole stock has just emptied two batches
C5_Witness ==
    /\ HAS_REMAINING
    /\ req.op = "add_sale" /\ flash = Recorded
    /\ products[req.product_id].quantity = 0
    /\ Cardinality(BatchesOf(purchases, req.product_id)) = 2
    /\ \A b \in BatchesOf(purchases, req.product_id) : purchases[b].remaining = 0
    /\ req.quantity = 2

\* the units the purchases of product p brought in
Received(purch, p) ==
    SumOver([i \in BatchesOf(purch, p) |-> purch[i].quantity],
            BatchesOf(purch, p))

(* C6: two add_sale requests for the same product that run concurrently,
   each for a quantity that fits the stock while the two together exceed it,
   end with exactly one recorded and the other rejected for insufficient
   stock, and no batch remaining or Product.quantity is negative.  (The stock
   is what the purchases brought in: the product started at 0 and the two
   requests are its only sales; requests aborted by an exception are left
   out.) *)
C6_ExactlyOneConcurrentSale ==
    LET a == txn[1]
        b == txn[2]
        A == Received(purchases, 1)
    IN  ( /\ HAS_REMAINING
          /\ a.pc = "done" /\ b.pc = "done"
          /\ a.flash # "500" /\ b.flash # "500"
          /\ a.quantity > 0 /\ b.quantity > 0
          /\ a.quantity <= A /\ b.quantity <= A
          /\ a.quantity + b.quantity > A )
        => /\ \/ a.flash = Recorded /\ b.flash = NotEnough
              \/ a.flash = NotEnough /\ b.flash = Recorded
           /\ products[1].quantity >= 0
           /\ \A i \in 1..Len(purchases) : purchases[i].remaining >= 0

\* some row of table purchase that existed before the step differs after it
BatchChanged == \E i \in 1..Len(purchases) : purchases'[i] # purchases[i]

SaleAppended == Len(sales') = Len(sales) + 1

(* C7: a sale is all-or-nothing in the committed state: a step that changes
   a batch or lowers Product.quantity also appends the Sale record; a step
   that appends a Sale record writes every batch decrement of that sale and
   its Product.quantity with it; and a sale request that ends otherwise than
   recorded (rejected, or failed after its loop had decremented batches)
   leaves batches, Product.quantity and Sale records as they were. *)
C7_SaleAllOrNothing ==
    [][ /\ BatchChanged => SaleAppended
        /\ (\E p \in ProductIds : products'[p].quantity < products[p].quantity)
           => SaleAppended
        /\ SaleAppended
           => \E s \in Slots :
                 LET r == txn[s]
                 IN  /\ r.pc \in {"pending", "aggregate"}
                     /\ txn'[s].pc = "done"
                     /\ sales'[Len(sales')] =
                            NewSale(r.product_id, r.quantity, r.price)
                     /\ products'[r.product_id].quantity =
                            r.read_quantity - r.quantity
                     /\ \A i \in DOMAIN r.rem :
                            purchases'[i].remaining = r.rem[i]
        /\ \A s \in Slots :
              (txn[s].pc # "done" /\ txn'[s].pc = "done"
                                  /\ txn'[s].flash # Recorded)
              => UNCHANGED <<products, purchases, sales>>
      ]_vars

\* a sale request failed after its loop had decremented a batch, and the
\* batch in the database still has what it had
C7_Witness ==
    \E s \in Slots :
        /\ txn[s].pc = "done" /\ txn[s].flash = "500"
        /\ sales = <<>>
        /\ \E i \in DOMAIN txn[s].rem :
              txn[s].rem[i] < purchases[i].remaining

(* C8: in full FIFO mode an add_purchase request with quantity q > 0 for an
   existing product is recorded: it appends exactly one batch, of that
   product, with quantity == remaining == q and the given unit price, raises
   that product's Product.quantity by exactly q in the same step, and changes
   no existing batch, no other product and no Sale record. *)
C8_PurchaseAddsOneBatch ==
    [][ ( /\ HAS_REMAINING
          /\ req'.op = "add_purchase"
          /\ req'.quantity > 0
          /\ products[req'.product_id].exists )
        => LET p == req'.product_id
               q == req'.quantity
               n == Len(purchases)
           IN  /\ flash' = "Purchase recorded"
               /\ Len(purchases') = n + 1
               /\ SubSeq(purchases', 1, n) = purchases
               /\ purchases'[n + 1].product_id = p
               /\ purchases'[n + 1].quantity = q
               /\ purchases'[n + 1].remaining = q
               /\ purchases'[n + 1].price = req'.price
               /\ products' = [products EXCEPT ![p].quantity = @ + q]
               /\ sales' = sales
      ]_vars

\* a purchase has just been recorded beside a batch a sale had partly used
C8_Witness ==
    /\ HAS_REMAINING
    /\ req.op = "add_purchase" /\ flash = "Purchase recorded"
    /\ Len(purchases) = 2
    /\ purchases[1].remaining < purchases[1].quantity
    /\ purchases[2].remaining = req.quantity
    /\ purchases[2].quantity = req.quantity

(* C9: an add_sale request with 0 < q <= Product.quantity is recorded and
   lowers Product.quantity by exactly q, also when the product has no batch;
   a request with q > Product.quantity is rejected with 'Not enough stock'
   and leaves Product.quantity unchanged; a sale never takes a non-negative
   Product.quantity below zero. *)
C9_SaleWithinQuantity ==
    [][ SaleStep
        => LET p == req'.product_id
               q == req'.quantity
           IN  /\ q <= products[p].quantity
                  => /\ flash' = Recorded
                     /\ products'[p].quantity = products[p].quantity - q
                     /\ sales' = Append(sales, NewSale(p, q, req'.price))
               /\ q > products[p].quantity
                  => /\ flash' = NotEnough
                     /\ products'[p].quantity = products[p].quantity
               /\ products[p].quantity >= 0 => products'[p].quantity >= 0
      ]_vars

\* a sale has just been recorded on a product that never had a batch
C9_Witness ==
    /\ HAS_REMAINING
    /\ req.op = "add_sale" /\ flash = Recorded
    /\ BatchesOf(purchases, req.product_id) = {}
    /\ Len(sales) > 0
    /\ sales[Len(sales)].product_id = req.product_id

(* C10: in full FIFO mode, starting from a product with quantity 0 and no
   batches: after the purchase of 10 at cost 2 Product.quantity is 10, after
   the purchase of 5 at cost 3 it is 15, and after the sale of 12 at price 5
   batch 1 has remaining 0, batch 2 has remaining 3, Product.quantity is 3,
   the valuation is 9, the sales revenue 60, the purchase cost 35 and the
   net profit/loss 25. *)
C10_WidgetScenario ==
    ( /\ HAS_REMAINING
      /\ Len(purchases) >= 1
      /\ purchases[1].quantity = 10 /\ purchases[1].price = 2 )
    => /\ (Len(purchases) = 1 /\ sales = <<>>) => products[1].quantity = 10
       /\ ( /\ Len(purchases) = 2
            /\ purchases[2].quantity = 5 /\ purchases[2].price = 3 )
          => /\ sales = <<>> => products[1].quantity = 15
             /\ sales = <<NewSale(1, 12, 5)>>
                => /\ purchases[1].remaining = 0
                   /\ purchases[2].remaining = 3
                   /\ products[1].quantity = 3
                   /\ home_total_value(HAS_REMAINING, purchases) = 9
                   /\ total_sales_amount(sales) = 60
                   /\ total_purchase_cost(purchases) = 35
                   /\ profit_loss(sales, purchases) = 25

(* C11: in full FIFO mode, in every state reached by requests served one at
   a time, every batch satisfies 0 <= remaining <= quantity, and no request
   increases the remaining of a batch. *)
C11_RemainingWithinQuantity ==
    [][ HAS_REMAINING
        => /\ \A i \in 1..Len(purchases') :
                 /\ 0 <= purchases'[i].remaining
                 /\ purchases'[i].remaining <= purchases'[i].quantity
           /\ \A i \in 1..Len(purchases) :
                 /\ purchases'[i].remaining <= purchases[i].remaining
                 /\ purchases'[i].quantity = purchases[i].quantity
      ]_vars

\* a sale has just left one batch empty and another partly used
C11_Witness ==
    /\ HAS_REMAINING
    /\ req.op = "add_sale" /\ flash = Recorded
    /\ \E i, j \in 1..Len(purchases) :
          /\ purchases[i].remaining = 0
          /\ purchases[j].remaining > 0
          /\ purchases[j].remaining < purchases[j].quantity

(* C12: an add_purchase or add_sale request whose quantity is zero, negative
   or unparseable (parsed as 0) is answered 'Quantity must be positive.' and
   changes no batch, no Sale record and no Product.quantity. *)
C12_InvalidQuantityRejected ==
    [][ (req'.op \in {"add_purchase", "add_sale"} /\ req'.quantity <= 0)
        => /\ flash' = "Quantity must be positive."
           /\ UNCHANGED <<products, purchases, sales>> ]_vars

\* a sale of a non-positive quantity has just been turned down on a product
\* that has stock, a batch and a sale on record
C12_Witness ==
    /\ req.op = "add_sale" /\ req.quantity <= 0
    /\ flash = "Quantity must be positive."
    /\ products[req.product_id].exists
    /\ products[req.product_id].quantity > 0
    /\ Len(purchases) > 0 /\ Len(sales) > 0

(* C13: an add_purchase or add_sale request with a positive quantity that
   names a product id that does not exist is answered 404 and creates no
   batch, no Sale record and changes no product. *)
C13_MissingProductNotFound ==
    [][ ( /\ req'.op \in {"add_purchase", "add_sale"}
          /\ req'.quantity > 0
          /\ ~products[req'.product_id].exists )
        => /\ flash' = "404"
           /\ UNCHANGED <<products, purchases, sales>> ]_vars

\* a sale that names a product id without a row has just been answered 404
\* while another product has stock, a batch and a sale on record
C13_Witness ==
    /\ req.op = "add_sale" /\ req.quantity > 0 /\ flash = "404"
    /\ ~products[req.product_id].exists
    /\ \E p \in ProductIds : products[p].exists /\ products[p].quantity > 0
    /\ Len(purchases) > 0 /\ Len(sales) > 0

(* C19: the reporting requests (home, with the valuation, and reports, with
   the profit/loss) change no product, batch or Sale record, so the valuation
   and the profit/loss computed after the request are those computed
   before it. *)
C19_ReportsChangeNothing ==
    [][ req'.op \in {"home", "reports"}
        => /\ UNCHANGED <<products, purchases, sales>>
           /\ home_total_value(HAS_REMAINING, purchases)'
                  = home_total_value(HAS_REMAINING, purchases)
           /\ profit_loss(sales, purchases)' = profit_loss(sales, purchases)
      ]_vars

\* home has just been served twice in a row on a ledger with a partly used
\* batch and a sale
C19_Witness ==
    /\ req.op = "home"
    /\ HAS_REMAINING
    /\ home_total_value(HAS_REMAINING, purchases) > 0
    /\ Len(sales) > 0
    /\ \E i \in 1..Len(purchases) :
          purchases[i].remaining < purchases[i].quantity

\* the rows of a table that reference product p
RowsOf(rows, p) == {i \in 1..Len(rows) : rows[i].product_id = p}

(* C20: after delete_product has deleted a product, no purchase batch and no
   Sale record references it, and every batch and Sale record references a
   product that exists. *)
C20_DeleteRemovesHistory ==
    (req.op = "delete_product" /\ flash = "Product deleted.")
    => /\ RowsOf(purchases, req.product_id) = {}
       /\ RowsOf(sales, req.product_id) = {}
       /\ \A i \in 1..Len(purchases) : products[purchases[i].product_id].exists
       /\ \A i \in 1..Len(sales) : products[sales[i].product_id].exists

(* C14, as claimed: in full FIFO mode a sale of q > 0 is accepted, and
   consumed from the batches, exactly when the sum of the product's batch
   remaining is >= q, whatever Product.quantity holds. *)
C14_DecisionByBatchSum ==
    [][ (HAS_REMAINING /\ SaleStep)
        => LET p == req'.product_id
               q == req'.quantity
               total == total_remaining_of(purchases, p)
           IN  /\ total >= q
                  => /\ flash' = Recorded
                     /\ total_remaining_of(purchases', p) = total - q
               /\ total < q => flash' = NotEnough
      ]_vars

(* C14, amended: in full FIFO mode add_sale decides on the cached
   Product.quantity: a sale of q > 0 is accepted exactly when
   q <= Product.quantity, whatever the batch sum; an accepted sale is
   consumed from the batches when the batch sum is >= q, and a sale with
   q > Product.quantity is rejected even when the batch sum is >= q. *)
C14_DecisionByQuantity ==
    [][ (HAS_REMAINING /\ SaleStep)
        => LET p == req'.product_id
               q == req'.quantity
               total == total_remaining_of(purchases, p)
           IN  /\ flash' = Recorded <=> q <= products[p].quantity
               /\ flash' = NotEnough <=> q > products[p].quantity
               /\ (total >= q /\ q <= products[p].quantity)
                  => total_remaining_of(purchases', p) = total - q
      ]_vars

\* a sale has just been rejected although the batches held enough
C14_Witness ==
    /\ HAS_REMAINING
    /\ req.op = "add_sale" /\ req.quantity > 0 /\ flash = NotEnough
    /\ products[req.product_id].exists
    /\ total_remaining_of(purchases, req.product_id) >= req.quantity

(* C15: when two consumable batches of the same product carry the same
   timestamp, a recorded sale consumes them in increasing batch id: the batch
   with the larger id is decremented only if the one with the smaller id is
   at remaining 0 after the sale. *)
C15_TiesInCreationOrder ==
    [][ (HAS_REMAINING /\ SaleStep /\ flash' = Recorded)
        => \A a, b \in Consumable(purchases, req'.product_id) :
              ( /\ a < b
                /\ purchases[a].timestamp = purchases[b].timestamp
                /\ purchases'[b].remaining < purchases[b].remaining )
              => purchases'[a].remaining = 0
      ]_vars

\* what add_sale does in degraded mode
DegradedSale ==
    LET p == req'.product_id
        q == req'.quantity
    IN  /\ q <= products[p].quantity
           => /\ flash' = Recorded
              /\ sales' = Append(sales, NewSale(p, q, req'.price))
              /\ products' = [products EXCEPT ![p].quantity = @ - q]
              /\ purchases' = purchases
        /\ q > products[p].quantity => RejectedNoChange

(* C16, as claimed: in degraded mode add_sale compares the quantity with
   Product.quantity only and, if sufficient, records a Sale and lowers
   Product.quantity by it, leaving every purchase row untouched; and while
   HAS_REMAINING is true no recorded sale leaves the batches untouched. *)
C16_UntouchedOnlyWhenDegraded ==
    [][ SaleStep
        => /\ ~HAS_REMAINING => DegradedSale
           /\ (HAS_REMAINING /\ flash' = Recorded) => purchases' # purchases
      ]_vars

(* C16, amended: in degraded mode add_sale compares the quantity with
   Product.quantity only and, if sufficient, records a Sale and lowers
   Product.quantity by it, leaving every purchase row untouched; while
   HAS_REMAINING is true a recorded sale leaves the batches untouched exactly
   when the batch sum is below its quantity, and such a sale is recorded
   against Product.quantity like one of degraded mode. *)
C16_UntouchedWhenDegradedOrUncovered ==
    [][ SaleStep
        => LET uncovered ==
                   total_remaining_of(purchases, req'.product_id) < req'.quantity
           IN  /\ ~HAS_REMAINING => DegradedSale
               /\ (HAS_REMAINING /\ flash' = Recorded)
                  => (purchases' = purchases <=> uncovered)
               /\ (HAS_REMAINING /\ uncovered) => DegradedSale
      ]_vars

\* a sale has just been recorded in degraded mode with purchases on record
C16_Witness ==
    /\ ~HAS_REMAINING
    /\ req.op = "add_sale" /\ flash = Recorded
    /\ Len(purchases) > 0
    /\ products[req.product_id].quantity >= 0

\* remaining * unit price summed over every batch, exhausted or not
ValueOfAllBatches(purch) ==
    SumOver([i \in 1..Len(purch) |-> purch[i].remaining * purch[i].price],
            1..Len(purch))

(* C17: in full FIFO mode the valuation of home is, after every request, the
   sum of remaining * unit price over the batches, where an exhausted batch
   contributes 0; it does not depend on Product.quantity: a request that
   creates or edits a product leaves it as it was; and a recorded purchase
   of q at unit price c raises it by q * c. *)
C17_ValuationFromBatches ==
    [][ HAS_REMAINING
        => LET value == home_total_value(HAS_REMAINING, purchases)
           IN  /\ value' = ValueOfAllBatches(purchases')
               /\ value' >= 0
               /\ req'.op \in {"add_product", "edit_product"} => value' = value
               /\ (req'.op = "add_purchase" /\ flash' = "Purchase recorded")
                  => value' = value + req'.quantity * req'.price
      ]_vars

\* a product has just been edited while the ledger holds an exhausted batch
\* and one with stock, and Product.quantity is not the batch sum
C17_Witness ==
    /\ HAS_REMAINING
    /\ req.op = "edit_product" /\ flash = "Product updated."
    /\ home_total_value(HAS_REMAINING, purchases) > 0
    /\ \E i \in 1..Len(purchases) : purchases[i].remaining = 0
    /\ products[req.product_id].quantity
          # total_remaining_of(purchases, req.product_id)

(* C18: reports computes the sales revenue as the sum of
   Sale.quantity * Sale.price, the purchase cost as the sum of the original
   Purchase.quantity * Purchase.price, and the net as revenue minus cost: a
   recorded sale of q at price s raises the revenue by q * s, a recorded
   purchase of q at cost c raises the purchase cost by q * c, a sale request
   never changes the purchase cost and a purchase request never changes the
   revenue. *)
C18_RevenueCostNet ==
    [][ LET revenue == total_sales_amount(sales)
            cost == total_purchase_cost(purchases)
        IN  /\ profit_loss(sales, purchases)' = revenue' - cost'
            /\ req'.op = "add_sale"
               => /\ cost' = cost
                  /\ revenue' = IF flash' = Recorded
                                THEN revenue + req'.quantity * req'.price
                                ELSE revenue
            /\ req'.op = "add_purchase"
               => /\ revenue' = revenue
                  /\ cost' = IF flash' = "Purchase recorded"
                             THEN cost + req'.quantity * req'.price
                             ELSE cost
      ]_vars

\* a sale has just consumed part of the batches of a ledger with revenue
\* and purchase cost
C18_Witness ==
    /\ req.op = "add_sale" /\ flash = Recorded
    /\ total_sales_amount(sales) > 0
    /\ total_purchase_cost(purchases) > 0
    /\ profit_loss(sales, purchases) > 0
    /\ \E i \in 1..Len(purchases) :
          HasRemaining(purchases[i])
          /\ purchases[i].remaining < purchases[i].quantity

\* what a batch was bought as: everything of the row but remaining
Original(b) ==
    [product_id |-> b.product_id, quantity |-> b.quantity,
     price |-> b.price, timestamp |-> b.timestamp]

(* C21: the history is append-only under add_purchase and add_sale: such a
   request deletes no batch, also not one whose remaining is 0, and changes
   no batch's product, original quantity, unit price or timestamp; it deletes
   no Sale record and changes none; and the Sale record a sale appends
   carries exactly the product, quantity and price that were posted. *)
C21_HistoryAppendOnly ==
    [][ req'.op \in {"add_purchase", "add_sale"}
        => LET n == Len(purchases)
               m == Len(sales)
           IN  /\ Len(purchases') >= n
               /\ \A i \in 1..n :
                     /\ Original(purchases'[i]) = Original(purchases[i])
                     /\ HasRemaining(purchases'[i]) = HasRemaining(purchases[i])
               /\ Len(sales') \in {m, m + 1}
               /\ SubSeq(sales', 1, m) = sales
               /\ Len(sales') = m + 1
                  => /\ req'.op = "add_sale"
                     /\ sales'[m + 1] = [product_id |-> req'.product_id,
                                         quantity |-> req'.quantity,
                                         price |-> req'.price]
      ]_vars

\* a second sale has just been recorded and a batch emptied by the sales is
\* still in the table with what it was bought as
C21_Witness ==
    /\ req.op = "add_sale" /\ flash = Recorded
    /\ Len(sales) = 2
    /\ sales[2].quantity = req.quantity
    /\ \E i \in 1..Len(purchases) :
          /\ HasRemaining(purchases[i])
          /\ purchases[i].remaining = 0
          /\ purchases[i].quantity > 0

(* C26: in full FIFO mode every add_sale that takes the FIFO branch (the
   quantity q passed the check against Product.quantity and the sum of the
   product's batch remaining is >= q) leaves its loop with
   remaining_to_consume == 0, whatever order the query returned: the sale is
   recorded, the sum of the product's batch remaining decreases by exactly q,
   and Product.quantity decreases by the same q. *)
C26_FifoLoopConsumesAll ==
    [][ ( /\ HAS_REMAINING
          /\ SaleStep
          /\ req'.quantity <= products[req'.product_id].quantity
          /\ total_remaining_of(purchases, req'.product_id) >= req'.quantity )
        => LET p == req'.product_id
               q == req'.quantity
           IN  /\ \A ord \in FifoOrders(purchases, p) :
                     ConsumeLoop(LoadedRemaining(purchases, ord), ord, 1, q)[2] = 0
               /\ flash' = Recorded
               /\ total_remaining_of(purchases', p) =
                      total_remaining_of(purchases, p) - q
               /\ products'[p].quantity = products[p].quantity - q
      ]_vars

\* a sale has just taken all of one batch and part of the next
C26_Witness ==
    /\ HAS_REMAINING
    /\ req.op = "add_sale" /\ flash = Recorded
    /\ \E i, j \in 1..Len(purchases) :
          /\ i # j
          /\ purchases[i].remaining = 0
          /\ purchases[j].remaining > 0
          /\ purchases[j].remaining < purchases[j].quantity
          /\ purchases[i].quantity + purchases[j].quantity
                - purchases[j].remaining = req.quantity
    /\ Len(sales) = 1

(* C27: in every state reached by requests served one at a time in full FIFO
   mode, for any two batches A and B of the same product with A's timestamp
   strictly earlier than B's: if B has been consumed from
   (B.remaining < B.quantity) then A is exhausted (A.remaining == 0). *)
C27_NewerTouchedOnlyAfterOlderExhausted ==
    HAS_REMAINING
    => \A a, b \in 1..Len(purchases) :
          ( /\ purchases[a].product_id = purchases[b].product_id
            /\ purchases[a].timestamp < purchases[b].timestamp
            /\ purchases[b].remaining < purchases[b].quantity )
          => purchases[a].remaining = 0

\* the batch of the later second has been consumed from after the batch of
\* the earlier second was emptied
C27_Witness ==
    /\ HAS_REMAINING
    /\ \E a, b \in 1..Len(purchases) :
          /\ purchases[a].product_id = purchases[b].product_id
          /\ purchases[a].timestamp < purchases[b].timestamp
          /\ purchases[b].remaining < purchases[b].quantity
          /\ purchases[b].remaining > 0
          /\ purchases[a].remaining = 0
    /\ Len(sales) > 0

\* sum of Purchase.quantity over the batches of product p
PurchasedOf(purch, p) ==
    LET S == BatchesOf(purch, p)
    IN  SumOver([i \in S |-> purch[i].quantity], S)

\* sum of Sale.quantity over the Sale records of product p
SoldOf(sales_, p) ==
    LET S == {i \in 1..Len(sales_) : sales_[i].product_id = p}
    IN  SumOver([i \in S |-> sales_[i].quantity], S)

\* units consumed from the batches of product p: sum of quantity - remaining
ConsumedOf(purch, p) ==
    LET S == {i \in BatchesOf(purch, p) : HasRemaining(purch[i])}
    IN  SumOver([i \in S |-> purch[i].quantity - purch[i].remaining], S)

\* what Product.quantity was before the purchases and sales on record
OpeningStock(products_, purch, sales_, p) ==
    products_[p].quantity - PurchasedOf(purch, p) + SoldOf(sales_, p)

(* C28: stock conservation where only add_purchase and add_sale follow the
   creation of a product: Product.quantity == quantity at creation
   + sum of Purchase.quantity - sum of Sale.quantity.  The creation leaves
   the product with the posted quantity and no purchase or sale on record,
   every later request keeps Product.quantity - purchases + sales what it
   was, and the units consumed from the batches, sum of quantity - remaining,
   never exceed the sum of Sale.quantity. *)
C28_StockConservation ==
    [][ /\ (req'.op = "add_product" /\ flash' = "Product added.")
           => \E p \in ProductIds :
                 /\ ~products[p].exists /\ products'[p].exists
                 /\ OpeningStock(products', purchases', sales', p) = req'.quantity
        /\ req'.op \in {"add_purchase", "add_sale"}
           => \A p \in ProductIds :
                 OpeningStock(products', purchases', sales', p) =
                     OpeningStock(products, purchases, sales, p)
        /\ \A p \in ProductIds :
              ConsumedOf(purchases', p) <= SoldOf(sales', p)
      ]_vars

\* a product created with stock has purchases and sales on record, one sale
\* taken from a batch and one recorded against Product.quantity alone
C28_Witness ==
    /\ HAS_REMAINING
    /\ OpeningStock(products, purchases, sales, 1) > 0
    /\ Len(purchases) > 0 /\ Len(sales) = 2
    /\ ConsumedOf(purchases, 1) > 0
    /\ ConsumedOf(purchases, 1) < SoldOf(sales, 1)

(* C22: an add_purchase or add_sale request for product P leaves every other
   product as it was, its Product.quantity included, and every batch of
   another product as it was, its remaining included. *)
C22_OtherProductsUntouched ==
    [][ req'.op \in {"add_purchase", "add_sale"}
        => \A p \in ProductIds \ {req'.product_id} :
              /\ products'[p] = products[p]
              /\ \A i \in BatchesOf(purchases, p) : purchases'[i] = purchases[i]
              /\ BatchesOf(purchases', p) = BatchesOf(purchases, p)
      ]_vars

\* a sale has just consumed from a batch of its product while the other
\* product holds a batch that is no newer, has remaining and some of it used
C22_Witness ==
    /\ HAS_REMAINING
    /\ req.op = "add_sale" /\ flash = Recorded
    /\ \E i, j \in 1..Len(purchases) :
          /\ purchases[i].product_id = req.product_id
          /\ purchases[j].product_id # req.product_id
          /\ purchases[j].timestamp <= purchases[i].timestamp
          /\ purchases[i].remaining < purchases[i].quantity
          /\ purchases[j].remaining > 0
          /\ purchases[j].remaining < purchases[j].quantity

(* C23: a purchase or sale whose price is unparseable or non-positive is
   rejected as invalid input and never reaches storage: no batch and no Sale
   record with a zero or negative price is ever in the tables. *)
C23_NoNonPositivePriceStored ==
    /\ \A i \in 1..Len(purchases) : purchases[i].price > 0
    /\ \A i \in 1..Len(sales) : sales[i].price > 0

MustLogIn == "You must be logged in to access that page."

(* C24: a route wrapped in login_required (home, reports, and the product,
   purchase, sale and category forms), requested while the session holds no
   user_id, answers with the redirect to login and its flash, and changes no
   stored product, batch, sale or category, nor any account or the session. *)
C24_NoSessionNoAccess ==
    [][ (session.user_id = 0 /\ req'.op \in ProtectedOps)
        => /\ flash' = MustLogIn
           /\ UNCHANGED <<products, purchases, sales, categories>>
           /\ UNCHANGED <<users, session>>
      ]_vars

\* after a logout a sale was posted to a ledger with stock, a sale on record
\* and a category, and it was answered with the redirect to login
C24_Witness ==
    /\ session.user_id = 0
    /\ req.op = "add_sale" /\ flash = MustLogIn
    /\ products[1].exists /\ products[1].quantity > 0
    /\ Len(purchases) > 0 /\ Len(sales) > 0
    /\ \E c \in CategoryIds : categories[c].exists
    /\ Len(users) > 0

\* the accounts whose username is the stripped posted one and whose stored
\* hash accepts the posted password
Matching(users_, username, password) ==
    {i \in 1..Len(users_) :
        /\ users_[i].username = Strip(username)
        /\ check_password(users_[i], password)}

(* C25: over any sequence of signup, login and logout requests: an account
   is created by a signup only, under the stripped username it posted when
   no account has that name, its stored hash accepts exactly the password
   posted at that signup, and no request changes an account afterwards; a
   login sets the session's user_id only to an account that carries the
   posted username and accepts the posted password, and a login with an
   unknown username or a wrong password leaves the session as it was; a
   logout leaves the session without user_id, and a session without user_id
   gets one only by a successful login. *)
C25_LoginNeedsSignupPassword ==
    [][ LET n == Len(users)
        IN  /\ Len(users') \in {n, n + 1}
            /\ SubSeq(users', 1, n) = users
            /\ Len(users') = n + 1
               => /\ req'.op = "signup"
                  /\ users'[n + 1].username = Strip(req'.username)
                  /\ UserNamed(users, Strip(req'.username)) = 0
                  /\ \A pw \in FormPasswords :
                        check_password(users'[n + 1], pw) <=> pw = req'.password
            /\ req'.op = "login"
               => LET hits == Matching(users, req'.username, req'.password)
                  IN  IF hits = {}
                      THEN /\ session' = session
                           /\ flash' = "Invalid username or password."
                      ELSE session'.user_id \in hits
            /\ req'.op = "logout" => session'.user_id = 0
            /\ session' # session => req'.op \in {"login", "logout"}
      ]_vars

\* the second account has just logged in with its own password, which the
\* first account does not accept, after the session had been without user
C25_Witness ==
    /\ Len(users) = 2
    /\ req.op = "login" /\ flash = ""
    /\ session.user_id = 2
    /\ users[2].username = <<"b">>
    /\ check_password(users[2], req.password)
    /\ ~check_password(users[1], req.password)

====
